---- MODULE Spec2Model ----
(***************************************************************************)
(* go-multicall: MulticallRaw (service.go) batches a list of CallRequest   *)
(* into chunks of cfg.BatchSize, packs each chunk as an aggregate3 call,   *)
(* sends it with one shared deadline, unpacks the reply and stores the     *)
(* decoded CallResult values at their absolute index.                      *)
(*                                                                         *)
(* Each goroutine that calls MulticallRaw is a process p; its position in  *)
(* the function is pc[p].  The Multicall3 contract and the RPC client are  *)
(* the environment: env lists the adverse conditions it may show.          *)
(***************************************************************************)
EXTENDS Integers, Sequences, FiniteSets, TLC

\* ------------------------------------------------------------------ bounds
MaxCalls == 3
MaxBatch == 3
MaxTimeout == 1

\* ------------------------------------------------------- program constants
defaultBatchSize == 100
defaultTimeout == 30

\* ---------------------------------------------------------------- universe
Procs == {"g1", "g2"}
CfgIds == {"cfgA", "cfgB"}
Client == "ethclient"
MulticallAddress == "0xcA11"
NilBytes == "nil"
Nil == <<>>
Some(x) == <<x>>

AllFaults == {"slow", "neterr", "packerr", "truncated", "miscount"}

Min(a, b) == IF a < b THEN a ELSE b

\* CallRequest{target, allowFailure, packedCallData}
NewCallRequest(target, packedCallData, allowFailure) ==
    [Target |-> target, AllowFailure |-> allowFailure, CallData |-> packedCallData]

\* The zero value of CallResult, as make([]CallResult, n) fills it.
ZeroCallResult == [Success |-> FALSE, Data |-> NilBytes]

IsEmptyData(d) == d \in {"", NilBytes}

\* The requests a caller builds: two calls that succeed with different return
\* data, a call to a missing function (fails, no return data), a call that
\* reverts with a reason (fails, revert data), each failing one allowed or not.
CallRequests ==
    { NewCallRequest("WETH", "name", TRUE),
      NewCallRequest("USDT", "name", FALSE),
      NewCallRequest("WETH", "0xdeadbeef", TRUE),
      NewCallRequest("USDT", "revert", TRUE),
      NewCallRequest("WETH", "0xdeadbeef", FALSE) }

RECURSIVE SeqsUpTo(_, _)
SeqsUpTo(S, n) ==
    IF n = 0 THEN {<<>>}
    ELSE LET shorter == SeqsUpTo(S, n - 1)
         IN  shorter \cup {Append(s, x) : s \in {t \in shorter : Len(t) = n - 1}, x \in S}

NewMulticallConfig(client, multicallAddress, batchSize, timeout) ==
    [Client |-> client, MulticallAddress |-> multicallAddress,
     BatchSize |-> batchSize, Timeout |-> timeout]

NewDefaultMulticallConfig_Swapped(client, multicallAddress) ==
    NewMulticallConfig(client, multicallAddress, defaultTimeout, defaultBatchSize)

NewDefaultMulticallConfig(client, multicallAddress) ==
    NewMulticallConfig(client, multicallAddress, defaultBatchSize, defaultTimeout)

\* ------------------------------------------------------------ the ABI codec
\* Pack("aggregate3", batch): the method, the element count, then each
\* (target, allowFailure, callData) triple flattened in order.
RECURSIVE EncodeCalls(_)
EncodeCalls(batch) ==
    IF batch = <<>> THEN <<>>
    ELSE <<Head(batch).Target, Head(batch).AllowFailure, Head(batch).CallData>>
         \o EncodeCalls(Tail(batch))

Pack(method, batch) == <<method, Len(batch)>> \o EncodeCalls(batch)

\* The contract's side of the codec: the triples of a packed aggregate3 call.
RECURSIVE DecodeCalls(_, _)
DecodeCalls(w, n) ==
    IF n = 0 THEN <<>>
    ELSE <<[Target |-> w[1], AllowFailure |-> w[2], CallData |-> w[3]]>>
         \o DecodeCalls(SubSeq(w, 4, Len(w)), n - 1)

\* The contract's reply: the element count, then each (success, returnData).
RECURSIVE EncodeResults(_)
EncodeResults(rs) ==
    IF rs = <<>> THEN <<>>
    ELSE <<Head(rs).Success, Head(rs).Data>> \o EncodeResults(Tail(rs))

PackResults(rs) == <<Len(rs)>> \o EncodeResults(rs)

RECURSIVE DecodeResults(_, _)
DecodeResults(w, n) ==
    IF n = 0 THEN <<>>
    ELSE <<[Success |-> w[1], Data |-> w[2]]>> \o DecodeResults(SubSeq(w, 3, Len(w)), n - 1)

\* UnpackIntoInterface(&response, "aggregate3", result): fails on bytes that
\* are not a complete encoding of a (success, returnData) array.
WellFormed(w) == Len(w) >= 1 /\ w[1] \in Nat /\ Len(w) = 1 + 2 * w[1]

Unpack(w) ==
    IF WellFormed(w)
    THEN [ok |-> TRUE, val |-> DecodeResults(SubSeq(w, 2, Len(w)), w[1])]
    ELSE [ok |-> FALSE, val |-> <<>>]

\* ------------------------------------------------- the aggregator contract
\* What one sub-call does on chain: it depends only on the request.
Exec(req) ==
    CASE req.CallData = "name" ->
             [Success |-> TRUE,
              Data |-> IF req.Target = "WETH" THEN "Wrapped Ether" ELSE "(PoS) Tether USD"]
      [] req.CallData = "revert" -> [Success |-> FALSE, Data |-> "reason"]
      [] OTHER -> [Success |-> FALSE, Data |-> ""]

\* aggregate3: every sub-call runs; a failed one with allowFailure=false
\* reverts the whole call ("Multicall3: call failed").
Reverts(cs) == \E k \in 1..Len(cs) : ~Exec(cs[k]).Success /\ ~cs[k].AllowFailure

Aggregate3(cs) == [k \in 1..Len(cs) |-> Exec(cs[k])]

\* eth_call of packed aggregate3 calldata against the contract: the packed
\* reply, or the node's error when the call reverts.
EthCall(data) ==
    LET cs == DecodeCalls(SubSeq(data, 3, Len(data)), data[2])
    IN  IF Reverts(cs) THEN [err |-> "revert", data |-> <<>>]
        ELSE [err |-> "", data |-> PackResults(Aggregate3(cs))]

\* --------------------------------------------------------------- the state
VARIABLES
    multicallABI,   \* the package-level ABI, loaded by init()
    configs,        \* the MulticallConfig objects, by identity
    env,            \* the adverse conditions the environment may show
    cfgp,           \* per call: the *MulticallConfig it was given
    calls,          \* per call: the request list it was given
    pc,             \* per call: its position in MulticallRaw
    results,        \* per call: the local results slice
    elapsed,        \* per call: time since its context was created
    i,              \* per call: the loop variable (0-based, as in the code)
    batch,          \* per call: calls[i:min(i+BatchSize, len(calls))]
    callData,       \* per call: the packed aggregate3 call
    result,         \* per call: what CallContract returned
    response,       \* per call: the unpacked []CallResult
    ret,            \* per call: what MulticallRaw returned
    rpcLog          \* per call: the remote calls it issued, with their replies

vars == <<multicallABI, configs, env, cfgp, calls, pc, results, elapsed, i, batch,
          callData, result, response, ret, rpcLog>>

cfg(p) == configs[cfgp[p]]

MaxRemoteCalls == MaxCalls + 1

NoErr == [op |-> "", index |-> -1, cause |-> ""]
\* fmt.Errorf("failed to <op> multicall %d: %w", i, err)
Errorf_NoWrap(op, index, cause) == [op |-> op, index |-> index, cause |-> "error"]
Errorf(op, index, cause) == [op |-> op, index |-> index, cause |-> cause]

NoResult == [err |-> "", data |-> <<>>]

\* lines 51 and 67: the context CallContract is given is done once the time
\* since its creation reaches cfg.Timeout.
DeadlinePassed_Background(p, now) == FALSE
DeadlinePassed(p, now) == now >= cfg(p).Timeout

Delays == IF "slow" \in env THEN 0..MaxTimeout ELSE {0}

\* Time is followed up to the deadline, and no further than one unit past
\* the largest timeout of the model.
TimeCap(p) == Min(cfg(p).Timeout, MaxTimeout + 1)

\* lines 50-52: the context is created once, before the loop, so the time
\* counted against the deadline goes on from chunk to chunk.
CtxAge_PerChunk(age, d) == d
CtxAge(age, d) == age + d

\* lines 44-88: MulticallRaw only reads cfg and calls.
CfgAfterCall_Clamped(c) == [c EXCEPT !.BatchSize = IF @ < 1 THEN 1 ELSE @]
CfgAfterCall(c) == c

\* ------------------------------------------------- MulticallRaw, by step
\* line 54: the loop condition.
LoopCond_Inclusive(idx, n) == idx <= n
LoopCond(idx, n) == idx < n

\* line 55: the upper bound of the slice expression calls[i:...].
BatchEnd(idx, batchSize, n) == Min(idx + batchSize, n)

\* line 54: the loop's post statement, i += cfg.BatchSize.
NextStart_ByOne(idx, batchSize) == idx + 1
NextStart(idx, batchSize) == idx + batchSize

\* line 83: the slot response[j] is stored in.
StoreIndex_NoOffset(idx, j) == j
StoreIndex(idx, j) == idx + j

\* lines 58, 69, 78: return nil, fmt.Errorf(...).
ErrReturn_Partial(res, err) == [results |-> Some(res), err |-> err]
ErrReturn(res, err) == [results |-> Nil, err |-> err]

\* lines 58, 69, 78: the error branch returns, which ends the call.
OnError_Continue == "loop"
OnError == "done"

\* line 87: return results, nil.
OkReturn(res) == [results |-> Some(res), err |-> NoErr]

\* line 68: if err != nil.
CallFailed_Ignored(r) == FALSE
CallFailed(r) == r.err # ""

\* line 48: results is a local of the call that allocates it.
ResultsOf_Shared(p) == "g1"
ResultsOf(p) == p

\* lines 44-52: entry; the results slice is allocated and the context with
\* the deadline is created.
Call(p) ==
    /\ pc[p] = "idle"
    /\ results' = [results EXCEPT ![ResultsOf(p)] =
                       [k \in 1..Len(calls[p]) |-> ZeroCallResult]]
    /\ elapsed' = [elapsed EXCEPT ![p] = 0]
    /\ i' = [i EXCEPT ![p] = 0]
    /\ pc' = [pc EXCEPT ![p] = "loop"]
    /\ configs' = [configs EXCEPT ![cfgp[p]] = CfgAfterCall(@)]
    /\ UNCHANGED <<multicallABI, env, cfgp, calls, batch, callData, result,
                   response, ret, rpcLog>>

\* lines 54-55 and 87: the loop test; then the batch is sliced (a slice
\* expression with high < low or high > len panics) or the results returned.
LoopTest(p) ==
    /\ pc[p] = "loop"
    /\ IF LoopCond(i[p], Len(calls[p]))
       THEN LET hi == BatchEnd(i[p], cfg(p).BatchSize, Len(calls[p]))
            IN  IF hi < i[p] \/ hi > Len(calls[p])
                THEN /\ pc' = [pc EXCEPT ![p] = "panic"]
                     /\ UNCHANGED <<batch, ret>>
                ELSE /\ batch' = [batch EXCEPT ![p] = SubSeq(calls[p], i[p] + 1, hi)]
                     /\ pc' = [pc EXCEPT ![p] = "pack"]
                     /\ UNCHANGED ret
       ELSE /\ ret' = [ret EXCEPT ![p] = OkReturn(results[ResultsOf(p)])]
            /\ pc' = [pc EXCEPT ![p] = "done"]
            /\ UNCHANGED batch
    /\ UNCHANGED <<multicallABI, configs, env, cfgp, calls, results, elapsed, i,
                   callData, result, response, rpcLog>>

\* lines 56-64: the batch is packed with the package's ABI.
PackBatch(p) ==
    /\ pc[p] = "pack"
    /\ \E ok \in (IF "packerr" \in env THEN BOOLEAN ELSE {TRUE}) :
         IF ok /\ multicallABI = "Multicall3"
         THEN /\ callData' = [callData EXCEPT ![p] = Pack("aggregate3", batch[p])]
              /\ pc' = [pc EXCEPT ![p] = "call"]
              /\ UNCHANGED ret
         ELSE /\ ret' = [ret EXCEPT ![p] =
                            ErrReturn(results[ResultsOf(p)], Errorf("pack", i[p], "abi"))]
              /\ pc' = [pc EXCEPT ![p] = OnError]
              /\ UNCHANGED callData
    /\ UNCHANGED <<multicallABI, configs, env, cfgp, calls, results, elapsed, i,
                   batch, result, response, rpcLog>>

\* line 67, first half: CallContract issues the request; time may have passed
\* since the previous step.
SendCall(p) ==
    /\ pc[p] = "call"
    /\ Len(rpcLog[p]) < MaxRemoteCalls
    /\ \E d \in Delays :
         /\ elapsed[p] + d <= TimeCap(p)
         /\ elapsed' = [elapsed EXCEPT ![p] = CtxAge(elapsed[p], d)]
         /\ rpcLog' = [rpcLog EXCEPT ![p] =
                          Append(@, [start |-> i[p], size |-> Len(batch[p]),
                                     to |-> cfg(p).MulticallAddress,
                                     callData |-> callData[p], reply |-> "pending",
                                     count |-> 0, took |-> d])]
    /\ pc' = [pc EXCEPT ![p] = "wait"]
    /\ UNCHANGED <<multicallABI, configs, env, cfgp, calls, results, i, batch,
                   callData, result, response, ret>>

\* The replies the environment can give to an in-flight call: once the
\* context's deadline has passed, only the context's error.
Replies(p, now) ==
    LET honest == EthCall(callData[p])
        rs == Unpack(honest.data).val
    IN  IF DeadlinePassed(p, now)
        THEN {[kind |-> "deadline", r |-> [err |-> "deadline", data |-> <<>>]]}
        ELSE {[kind |-> IF honest.err = "" THEN "ok" ELSE "revert", r |-> honest]}
             \cup (IF "neterr" \in env
                   THEN {[kind |-> "neterr", r |-> [err |-> "neterr", data |-> <<>>]]}
                   ELSE {})
             \cup (IF "truncated" \in env /\ honest.err = ""
                   THEN {[kind |-> "truncated",
                          r |-> [err |-> "",
                                 data |-> SubSeq(honest.data, 1, Len(honest.data) - 1)]]}
                   ELSE {})
             \cup (IF "miscount" \in env /\ honest.err = ""
                   THEN {[kind |-> "long",
                          r |-> [err |-> "",
                                 data |-> PackResults(Append(rs, Exec(NewCallRequest("WETH", "name", TRUE))))]]}
                        \cup (IF Len(rs) >= 1
                              THEN {[kind |-> "short",
                                     r |-> [err |-> "",
                                            data |-> PackResults(SubSeq(rs, 1, Len(rs) - 1))]]}
                              ELSE {})
                   ELSE {})

\* lines 67-70: CallContract returns; on an error MulticallRaw returns it.
ReturnCall(p) ==
    /\ pc[p] = "wait"
    /\ \E d \in Delays :
         /\ elapsed[p] + d <= TimeCap(p)
         /\ elapsed' = [elapsed EXCEPT ![p] = elapsed[p] + d]
         /\ \E reply \in Replies(p, elapsed[p] + d) :
              /\ result' = [result EXCEPT ![p] = reply.r]
              /\ rpcLog' = [rpcLog EXCEPT ![p][Len(rpcLog[p])] =
                               [@ EXCEPT !.reply = reply.kind,
                                         !.count = Len(Unpack(reply.r.data).val),
                                         !.took = @ + d]]
              /\ IF CallFailed(reply.r)
                 THEN /\ ret' = [ret EXCEPT ![p] =
                                    ErrReturn(results[ResultsOf(p)], Errorf("execute", i[p], reply.r.err))]
                      /\ pc' = [pc EXCEPT ![p] = OnError]
                 ELSE /\ pc' = [pc EXCEPT ![p] = "unpack"]
                      /\ UNCHANGED ret
    /\ UNCHANGED <<multicallABI, configs, env, cfgp, calls, results, i, batch,
                   callData, response>>

\* lines 73-79: the reply is unpacked into response.
UnpackResult(p) ==
    /\ pc[p] = "unpack"
    /\ LET u == Unpack(result[p].data)
       IN  IF u.ok /\ multicallABI = "Multicall3"
           THEN /\ response' = [response EXCEPT ![p] = u.val]
                /\ pc' = [pc EXCEPT ![p] = "store"]
                /\ UNCHANGED ret
           ELSE /\ ret' = [ret EXCEPT ![p] =
                              ErrReturn(results[ResultsOf(p)], Errorf("unpack", i[p], "abi"))]
                /\ pc' = [pc EXCEPT ![p] = OnError]
                /\ UNCHANGED response
    /\ UNCHANGED <<multicallABI, configs, env, cfgp, calls, results, elapsed, i,
                   batch, callData, result, rpcLog>>

\* The results slice after "for j := range response { results[i+j] = response[j] }"
\* has run as far as it can (an index past the slice panics).
Stored_SkipFailed(res, idx, resp) ==
    [k \in 1..Len(res) |->
        IF k - 1 - idx \in 0..(Len(resp) - 1) /\ resp[k - idx].Success
        THEN resp[k - idx]
        ELSE res[k]]

Stored(res, idx, resp) ==
    [k \in 1..Len(res) |->
        IF \E j \in 0..(Len(resp) - 1) : StoreIndex(idx, j) = k - 1
        THEN LET js == {j \in 0..(Len(resp) - 1) : StoreIndex(idx, j) = k - 1}
             IN  resp[(CHOOSE j \in js : \A j2 \in js : j2 <= j) + 1]
        ELSE res[k]]

\* lines 81-85 and the post statement of line 54.
Store(p) ==
    /\ pc[p] = "store"
    /\ results' = [results EXCEPT ![ResultsOf(p)] =
                       Stored(results[ResultsOf(p)], i[p], response[p])]
    /\ IF \E j \in 0..(Len(response[p]) - 1) :
            StoreIndex(i[p], j) < 0 \/ StoreIndex(i[p], j) >= Len(results[ResultsOf(p)])
       THEN /\ pc' = [pc EXCEPT ![p] = "panic"]
            /\ UNCHANGED i
       ELSE /\ i' = [i EXCEPT ![p] = NextStart(i[p], cfg(p).BatchSize)]
            /\ pc' = [pc EXCEPT ![p] = "loop"]
    /\ UNCHANGED <<multicallABI, configs, env, cfgp, calls, elapsed, batch, callData,
                   result, response, ret, rpcLog>>

Next ==
    \E p \in Procs :
        \/ Call(p)
        \/ LoopTest(p)
        \/ PackBatch(p)
        \/ SendCall(p)
        \/ ReturnCall(p)
        \/ UnpackResult(p)
        \/ Store(p)

\* ------------------------------------------------------- initial states
\* The state once init() has run and the callers hold their arguments.
InitLocals ==
    /\ multicallABI = "Multicall3"
    /\ results = [p \in Procs |-> <<>>]
    /\ elapsed = [p \in Procs |-> 0]
    /\ i = [p \in Procs |-> 0]
    /\ batch = [p \in Procs |-> <<>>]
    /\ callData = [p \in Procs |-> <<>>]
    /\ result = [p \in Procs |-> NoResult]
    /\ response = [p \in Procs |-> <<>>]
    /\ ret = [p \in Procs |-> [results |-> Nil, err |-> NoErr]]
    /\ rpcLog = [p \in Procs |-> <<>>]

BatchSizes == (-1)..MaxBatch
Timeouts == 0..MaxTimeout

\* One goroutine calls MulticallRaw once, with any config NewMulticallConfig
\* builds and any request list, in an environment that may show every fault.
Init ==
    /\ InitLocals
    /\ env = AllFaults
    /\ \E bs \in BatchSizes, t \in Timeouts :
         configs = [c \in CfgIds |->
                      IF c = "cfgA" THEN NewMulticallConfig(Client, MulticallAddress, bs, t)
                      ELSE NewDefaultMulticallConfig(Client, MulticallAddress)]
    /\ cfgp = [p \in Procs |-> "cfgA"]
    /\ \E cs \in SeqsUpTo(CallRequests, MaxCalls) :
         calls = [p \in Procs |-> IF p = "g1" THEN cs ELSE <<>>]
    /\ pc = [p \in Procs |-> IF p = "g1" THEN "idle" ELSE "off"]

Spec == Init /\ [][Next]_vars

\* ------------------------------------------------- vocabulary of the claims
Returned(p) == pc[p] = "done"
Succeeded(p) == pc[p] = "done" /\ ret[p].err = NoErr
Aborted(p) == pc[p] = "done" /\ ret[p].err # NoErr /\ ret[p].results = Nil

\* The request at 1-based position k fails on chain.
FailsOnChain(p, k) == ~Exec(calls[p][k]).Success
AllowedFailure(p, k) == FailsOnChain(p, k) /\ calls[p][k].AllowFailure
StrictFailure(p, k) == FailsOnChain(p, k) /\ ~calls[p][k].AllowFailure

\* The positions (1-based) of the chunk a logged remote call carried.
ChunkOf(e) == (e.start + 1)..(e.start + e.size)

\* The aggregator's reply to the chunk that holds position k has an entry for k.
Answered(p, k) ==
    \E n \in 1..Len(rpcLog[p]) :
        /\ k \in ChunkOf(rpcLog[p][n])
        /\ rpcLog[p][n].reply \in {"ok", "short", "long"}
        /\ k <= rpcLog[p][n].start + rpcLog[p][n].count

\* Every reply so far is the contract's own answer: no network error, no
\* elapsed deadline, no malformed or miscounted reply, no failed Pack.
FaultFree(p) ==
    /\ \A n \in 1..Len(rpcLog[p]) : rpcLog[p][n].reply \in {"pending", "ok", "revert"}
    /\ Returned(p) => ret[p].err.op \in {"", "execute"}

\* C1: a MulticallRaw call that returns without error returns exactly
\* len(calls) results, and results[i] is the aggregator's result for calls[i]
\* wherever the batch boundaries fall.
C1_ResultsInInputOrder ==
    \A p \in Procs :
        Succeeded(p) =>
            /\ ret[p].results # Nil
            /\ Len(ret[p].results[1]) = Len(calls[p])
            /\ \A k \in 1..Len(calls[p]) :
                 Answered(p, k) => ret[p].results[1][k] = Exec(calls[p][k])

\* Three requests in chunks of two: two remote calls, each answered in full.
C1_Witness ==
    \E p \in Procs :
        /\ Succeeded(p)
        /\ Len(calls[p]) = 3
        /\ cfg(p).BatchSize = 2
        /\ Len(rpcLog[p]) = 2
        /\ \A n \in 1..2 : rpcLog[p][n].reply = "ok"
        /\ ret[p].results[1][1] # ret[p].results[1][3]
        /\ \A k \in 1..3 : ret[p].results[1][k] = Exec(calls[p][k])

\* C3: MulticallRaw returns a result list of len(calls) entries and no error,
\* or an error and no result list, never both; results decoded from earlier
\* chunks are not returned when a later chunk fails.
C3_ResultsOrError ==
    \A p \in Procs :
        Returned(p) =>
            \/ /\ ret[p].err = NoErr
               /\ ret[p].results # Nil
               /\ Len(ret[p].results[1]) = Len(calls[p])
            \/ /\ ret[p].err # NoErr
               /\ ret[p].err.op \in {"pack", "execute", "unpack"}
               /\ ret[p].results = Nil

\* A later chunk fails to unpack after the first chunk's results were stored.
C3_Witness ==
    \E p \in Procs :
        /\ Aborted(p)
        /\ ret[p].err.op = "unpack"
        /\ ret[p].err.index > 0
        /\ results[p][1] = Exec(calls[p][1])
        /\ results[p][1].Success

\* C4: a request with allowFailure=true whose call fails gets success=false
\* at its own index and does not abort the call: the aggregator does not
\* revert a chunk for it, and every sibling answered gets its own result.
C4_PerCallIsolation ==
    \A p \in Procs :
        /\ \A n \in 1..Len(rpcLog[p]) :
             rpcLog[p][n].reply = "revert" =>
                 \E k \in ChunkOf(rpcLog[p][n]) : StrictFailure(p, k)
        /\ Succeeded(p) =>
             \A k \in 1..Len(calls[p]) :
                 AllowedFailure(p, k) /\ Answered(p, k) =>
                     /\ ~ret[p].results[1][k].Success
                     /\ ret[p].results[1][k] = Exec(calls[p][k])
                     /\ \A m \in 1..Len(calls[p]) :
                          Answered(p, m) => ret[p].results[1][m] = Exec(calls[p][m])

\* An allowed failure between a successful sibling of its own chunk and one
\* of the next chunk.
C4_Witness ==
    \E p \in Procs :
        /\ Succeeded(p)
        /\ Len(calls[p]) = 3
        /\ cfg(p).BatchSize = 2
        /\ AllowedFailure(p, 2)
        /\ Exec(calls[p][2]).Data = "reason"
        /\ \A n \in 1..Len(rpcLog[p]) : rpcLog[p][n].reply = "ok"
        /\ ret[p].results[1][1].Success
        /\ ~ret[p].results[1][2].Success
        /\ ret[p].results[1][3].Success

\* C5: in every result list MulticallRaw returns, a result whose success is
\* false has empty data, whatever the aggregator's reply carries for it.
C5_FailedResultHasNoData ==
    \A p \in Procs :
        Succeeded(p) =>
            \A k \in 1..Len(calls[p]) :
                ~ret[p].results[1][k].Success => IsEmptyData(ret[p].results[1][k].Data)

\* C6: a request with allowFailure=false whose call fails makes the remote
\* call of its chunk report failure, and MulticallRaw then returns a
\* remote-call error for that chunk and no result list; the call never
\* returns a result list.
C6_StrictFailureAborts ==
    \A p \in Procs :
        /\ \A n \in 1..Len(rpcLog[p]) :
             (\E k \in ChunkOf(rpcLog[p][n]) : StrictFailure(p, k))
             /\ rpcLog[p][n].reply # "pending" =>
                 /\ rpcLog[p][n].reply \in {"revert", "neterr", "deadline"}
                 /\ Aborted(p)
                 /\ ret[p].err.op = "execute"
                 /\ ret[p].err.index = rpcLog[p][n].start
        /\ (\E k \in 1..Len(calls[p]) : StrictFailure(p, k)) /\ Returned(p) => Aborted(p)

\* The strict failure sits in the second chunk; the first chunk was answered.
C6_Witness ==
    \E p \in Procs :
        /\ Aborted(p)
        /\ ret[p].err = Errorf("execute", 2, "revert")
        /\ Len(rpcLog[p]) = 2
        /\ rpcLog[p][1].reply = "ok"
        /\ StrictFailure(p, 3)

\* C7: no config NewMulticallConfig builds lets MulticallRaw cut a chunk of
\* no requests out of a non-empty request list (a loop that does not advance).
C7_NoZeroProgressLoop ==
    \A p \in Procs :
        pc[p] \in {"pack", "call", "wait"} => Len(batch[p]) >= 1

\* C8: MulticallRaw on an empty request list returns an empty result list and
\* no error, and issues no remote call.
C8_EmptyInput ==
    \A p \in Procs :
        calls[p] = <<>> /\ pc[p] # "off" =>
            /\ pc[p] \in {"idle", "loop", "done"}
            /\ rpcLog[p] = <<>>
            /\ Returned(p) => ret[p] = [results |-> Some(<<>>), err |-> NoErr]

C8_Witness ==
    \E p \in Procs :
        /\ calls[p] = <<>>
        /\ Returned(p)
        /\ cfg(p).BatchSize = 2
        /\ ret[p].results = Some(<<>>)

\* The time since the call began has reached the config's Timeout.
Expired(p) == elapsed[p] >= cfg(p).Timeout

\* A chunk has been cut and not yet sent, or the next one can be cut.
ChunkPending(p) ==
    \/ pc[p] \in {"pack", "call"}
    \/ /\ pc[p] = "loop"
       /\ LoopCond(i[p], Len(calls[p]))
       /\ BatchEnd(i[p], cfg(p).BatchSize, Len(calls[p])) >= i[p]
ChunkInFlight(p) == pc[p] = "wait"

\* C9: once the deadline has elapsed while a chunk is in flight or pending,
\* the call can only abort with an error and no result list: it never unpacks
\* or stores another reply and never returns results.
C9_DeadlineAborts ==
    [][\A p \in Procs :
          (ChunkPending(p) \/ ChunkInFlight(p)) /\ Expired(p)' =>
              \/ (ChunkPending(p) \/ ChunkInFlight(p))'
              \/ Aborted(p)']_vars

\* The deadline elapsed during the second chunk, after the first was stored.
C9_Witness ==
    \E p \in Procs :
        /\ Aborted(p)
        /\ ret[p].err = Errorf("execute", 1, "deadline")
        /\ cfg(p).Timeout > 0
        /\ results[p][1] = Exec(calls[p][1])
        /\ results[p][1].Success

\* ----------------------------------------- two runs of one request list
\* Two MulticallRaw runs of the same request list that differ only in the
\* config's BatchSize, against a faultless remote that answers within the
\* deadline.
InitBatching ==
    /\ InitLocals
    /\ env = {}
    /\ \E bs1 \in 1..MaxBatch, bs2 \in 1..MaxBatch :
         /\ bs1 < bs2
         /\ configs = [c \in CfgIds |->
                         NewMulticallConfig(Client, MulticallAddress,
                                            IF c = "cfgA" THEN bs1 ELSE bs2, MaxTimeout)]
    /\ cfgp = [p \in Procs |-> IF p = "g1" THEN "cfgA" ELSE "cfgB"]
    /\ \E cs \in SeqsUpTo(CallRequests, MaxCalls) : calls = [p \in Procs |-> cs]
    /\ pc = [p \in Procs |-> "idle"]

SpecBatching == InitBatching /\ [][Next]_vars

\* C2: two runs of the same request list that differ only in BatchSize (both
\* >= 1), in which the deadline does not elapse and the aggregator answers
\* each request by what the request is, return the same result sequence.
C2_BatchingTransparency ==
    \A p \in Procs, q \in Procs :
        /\ Returned(p) /\ Returned(q)
        /\ calls[p] = calls[q]
        /\ cfg(p).BatchSize >= 1 /\ cfg(q).BatchSize >= 1
        /\ FaultFree(p) /\ FaultFree(q)
        => ret[p].results = ret[q].results

\* One chunk of three against three chunks of one, same three results.
C2_Witness ==
    /\ Succeeded("g1") /\ Succeeded("g2")
    /\ Len(calls["g1"]) = 3
    /\ Len(rpcLog["g1"]) = 3
    /\ Len(rpcLog["g2"]) = 1
    /\ ret["g1"].results = ret["g2"].results
    /\ ret["g1"].results[1][1] # ret["g1"].results[1][2]

\* ------------------------------------------------------ concurrent callers
ConcurrentCallLists ==
    { <<>>,
      <<NewCallRequest("WETH", "name", TRUE), NewCallRequest("USDT", "revert", TRUE),
        NewCallRequest("USDT", "name", FALSE)>>,
      <<NewCallRequest("USDT", "name", FALSE), NewCallRequest("WETH", "0xdeadbeef", TRUE)>>,
      <<NewCallRequest("WETH", "name", TRUE), NewCallRequest("WETH", "0xdeadbeef", FALSE),
        NewCallRequest("USDT", "name", FALSE)>> }

\* Two goroutines call MulticallRaw with the same *MulticallConfig, each with
\* its own request list, against a faultless remote.
InitConcurrent ==
    /\ InitLocals
    /\ env = {}
    /\ \E bs \in 1..MaxBatch :
         configs = [c \in CfgIds |->
                      NewMulticallConfig(Client, MulticallAddress, bs, MaxTimeout)]
    /\ cfgp = [p \in Procs |-> "cfgA"]
    /\ calls \in [Procs -> ConcurrentCallLists]
    /\ pc = [p \in Procs |-> "idle"]

SpecConcurrent == InitConcurrent /\ [][Next]_vars

\* What MulticallRaw returns for cs with batch size bs when it runs alone
\* against a faultless remote, from start index idx with res stored so far.
RECURSIVE RunAlone(_, _, _, _)
RunAlone(cs, bs, idx, res) ==
    IF idx >= Len(cs) THEN [results |-> Some(res), err |-> NoErr]
    ELSE LET hi == Min(idx + bs, Len(cs))
             chunk == SubSeq(cs, idx + 1, hi)
         IN  IF Reverts(chunk)
             THEN [results |-> Nil, err |-> Errorf("execute", idx, "revert")]
             ELSE RunAlone(cs, bs, idx + bs,
                           [k \in 1..Len(cs) |->
                               IF k \in (idx + 1)..hi THEN Exec(cs[k]) ELSE res[k]])

\* C10: under every interleaving of concurrent calls on one config, each call
\* returns what it returns running alone, and a step of one call leaves every
\* other call's result list as it was.
C10_ConcurrentCallsIndependent ==
    /\ [](\A p \in Procs :
            Returned(p) =>
                ret[p] = RunAlone(calls[p], cfg(p).BatchSize, 0,
                                  [k \in 1..Len(calls[p]) |-> ZeroCallResult]))
    /\ [][\A p \in Procs, q \in Procs :
            p # q /\ pc'[p] # pc[p] => results'[q] = results[q]]_vars

\* g1 has returned its three results while g2 is between its chunks.
C10_Witness ==
    /\ Succeeded("g1")
    /\ Len(calls["g1"]) = 3
    /\ Len(rpcLog["g1"]) >= 2
    /\ pc["g2"] = "store"
    /\ i["g2"] > 0
    /\ calls["g1"] # calls["g2"]
    /\ results["g2"][1] = Exec(calls["g2"][1])

\* ------------------------------------------------------ the default config
Clients == {Client, "ethclient2"}
Addresses == {MulticallAddress, "0xOther"}

\* The caller builds cfgA with NewMulticallConfig and cfgB with
\* NewDefaultMulticallConfig from the same client and address, and calls
\* MulticallRaw with cfgB.
InitDefault ==
    /\ InitLocals
    /\ env = AllFaults
    /\ \E client \in Clients, addr \in Addresses :
         configs = [c \in CfgIds |->
                      IF c = "cfgA" THEN NewMulticallConfig(client, addr, 1, MaxTimeout)
                      ELSE NewDefaultMulticallConfig(client, addr)]
    /\ cfgp = [p \in Procs |-> "cfgB"]
    /\ \E cs \in SeqsUpTo(CallRequests, MaxCalls) :
         calls = [p \in Procs |-> IF p = "g1" THEN cs ELSE <<>>]
    /\ pc = [p \in Procs |-> IF p = "g1" THEN "idle" ELSE "off"]

SpecDefault == InitDefault /\ [][Next]_vars

\* C11: NewDefaultMulticallConfig returns a config with batch size 100 and
\* timeout 30 (seconds) that carries the client and the aggregator address it
\* was given; a call made with it sends to that address.
C11_DefaultConfig ==
    /\ configs["cfgB"].BatchSize = 100
    /\ configs["cfgB"].Timeout = 30
    /\ configs["cfgB"].Client = configs["cfgA"].Client
    /\ configs["cfgB"].MulticallAddress = configs["cfgA"].MulticallAddress
    /\ \A c \in Clients, a \in Addresses :
         NewDefaultMulticallConfig(c, a) =
             [Client |-> c, MulticallAddress |-> a, BatchSize |-> 100, Timeout |-> 30]
    /\ \A p \in Procs : \A n \in 1..Len(rpcLog[p]) :
         /\ rpcLog[p][n].to = configs["cfgA"].MulticallAddress
         /\ rpcLog[p][n].size = Len(calls[p])

\* A call on the default config built from the second client and address:
\* three requests go out in one chunk.
C11_Witness ==
    /\ Succeeded("g1")
    /\ cfgp["g1"] = "cfgB"
    /\ configs["cfgB"].Client = "ethclient2"
    /\ configs["cfgB"].MulticallAddress = "0xOther"
    /\ Len(calls["g1"]) = 3
    /\ Len(rpcLog["g1"]) = 1
    /\ rpcLog["g1"][1].size = 3

\* ------------------------------------------------------------ the chunks
\* The 0-based indices of the requests the n-th remote call of p carried.
RangeOf(p, n) == rpcLog[p][n].start .. (rpcLog[p][n].start + rpcLog[p][n].size - 1)

CeilDiv(n, d) == (n + d - 1) \div d

Running(p) == pc[p] \notin {"off", "idle"}

\* C12: with BatchSize >= 1 the chunks sent are the contiguous ranges
\* [0, bs), [bs, 2bs), ... of the request list, in that order, each of 1..bs
\* requests and only the one that ends the list shorter than bs; a call that
\* succeeds has sent ceil(N / bs) of them, covering every index exactly once.
C12_ChunksPartitionInput ==
    \A p \in Procs :
        (Running(p) /\ cfg(p).BatchSize >= 1) =>
            LET bs == cfg(p).BatchSize
                N == Len(calls[p])
                log == rpcLog[p]
            IN  /\ \A n \in 1..Len(log) :
                     /\ log[n].start = (n - 1) * bs
                     /\ log[n].size >= 1 /\ log[n].size <= bs
                     /\ log[n].start + log[n].size <= N
                     /\ log[n].size < bs => log[n].start + log[n].size = N
                     /\ n > 1 => log[n].start = log[n - 1].start + log[n - 1].size
                     /\ log[n].callData =
                            Pack("aggregate3",
                                 SubSeq(calls[p], log[n].start + 1, log[n].start + log[n].size))
                /\ Succeeded(p) =>
                     /\ Len(log) = CeilDiv(N, bs)
                     /\ \A k \in 0..(N - 1) :
                          Cardinality({n \in 1..Len(log) : k \in RangeOf(p, n)}) = 1

\* Three requests with BatchSize 2: two remote calls, of sizes 2 and 1.
C12_Witness ==
    /\ Succeeded("g1")
    /\ cfg("g1").BatchSize = 2
    /\ Len(calls["g1"]) = 3
    /\ Len(rpcLog["g1"]) = 2
    /\ rpcLog["g1"][1].size = 2 /\ rpcLog["g1"][2].size = 1
    /\ rpcLog["g1"][2].start = 2

\* --------------------------------------------------- the writes to results
\* The remote calls of p whose decoded response was stored into the 0-based
\* slot k: "for j := range response" writes slots start .. start+count-1.
Writers(p, k) ==
    {n \in 1..Len(rpcLog[p]) :
        /\ rpcLog[p][n].reply \in {"ok", "short", "long"}
        /\ k \in rpcLog[p][n].start .. (rpcLog[p][n].start + rpcLog[p][n].count - 1)}

\* C13: on a successful return every slot was written exactly once, by the
\* response of the chunk whose range contains it, also when a response
\* decodes to fewer or more entries than its chunk has requests: no slot
\* keeps the zero value and none is written by another chunk's response.
C13_SlotWrittenOnceByOwnChunk ==
    \A p \in Procs :
        Succeeded(p) =>
            \A k \in 0..(Len(calls[p]) - 1) :
                /\ Writers(p, k) = {n \in 1..Len(rpcLog[p]) : k \in RangeOf(p, n)}
                /\ Cardinality(Writers(p, k)) = 1
                /\ ret[p].results[1][k + 1] # ZeroCallResult

\* ------------------------------------------------- the order of the chunks
\* The remote call before the last one logged was answered, decoded and
\* stored: the slots it could write hold the response decoded from it.
PreviousStored(p) ==
    LET e == rpcLog[p][Len(rpcLog[p]) - 1]
    IN  /\ e.reply \in {"ok", "short", "long"}
        /\ Len(response[p]) = e.count
        /\ \A j \in 0..(e.count - 1) :
             e.start + j < Len(results[p]) =>
                 results[p][e.start + j + 1] = response[p][j + 1]

\* C14: within one call the chunks are processed one after the other in
\* increasing start-index order: only the newest remote call can be in
\* flight, each remote call starts at a higher index than the one before,
\* and it is issued only once the one before was decoded and stored.
C14_SequentialInOrder ==
    \A p \in Procs :
        /\ \A n \in 1..Len(rpcLog[p]) :
             rpcLog[p][n].reply = "pending" => (n = Len(rpcLog[p]) /\ pc[p] = "wait")
        /\ \A n \in 2..Len(rpcLog[p]) :
             rpcLog[p][n - 1].start < rpcLog[p][n].start
        /\ (pc[p] = "wait" /\ Len(rpcLog[p]) >= 2) => PreviousStored(p)

\* ----------------------------------------------------- no retry, no resume
\* A chunk of p has failed: MulticallRaw has built the error it returns.
ChunkFailed(p) == ret[p].err # NoErr

\* No request was sent twice, and a remote call that was followed by another
\* one had been answered with a response.
SentOnce(p) ==
    \A n \in 1..Len(rpcLog[p]) : \A m \in (n + 1)..Len(rpcLog[p]) :
        /\ RangeOf(p, n) \cap RangeOf(p, m) = {}
        /\ rpcLog[p][n].reply \in {"ok", "short", "long"}

\* C15: within one call no request is sent a second time, and once a chunk
\* has failed at Pack, at the remote call or at Unpack, the call is over:
\* nothing more is sliced, packed or sent.
C15_NoRetryNoSendAfterFailure ==
    /\ [](\A p \in Procs : SentOnce(p))
    /\ [][\A p \in Procs :
            ChunkFailed(p) =>
                /\ pc'[p] = "done"
                /\ rpcLog'[p] = rpcLog[p]
                /\ callData'[p] = callData[p]
                /\ batch'[p] = batch[p]
                /\ ret'[p] = ret[p]]_vars

\* Three requests one by one: the second remote call fails, the third
\* request is never sent.
C15_Witness ==
    /\ Aborted("g1")
    /\ ret["g1"].err.op = "execute"
    /\ ret["g1"].err.index = 1
    /\ Len(calls["g1"]) = 3
    /\ cfg("g1").BatchSize = 1
    /\ Len(rpcLog["g1"]) = 2
    /\ rpcLog["g1"][1].reply = "ok"

\* -------------------------------------------------------- the one deadline
\* Requests that succeed on chain, so that only time decides a call's fate.
NameCalls == {NewCallRequest("WETH", "name", TRUE), NewCallRequest("USDT", "name", FALSE)}

\* One goroutine calls MulticallRaw with a positive batch size and a timeout
\* of up to MaxTimeout + 1 against a node that answers honestly but may be slow.
InitDeadline ==
    /\ InitLocals
    /\ env = {"slow"}
    /\ \E bs \in 1..MaxBatch, t \in 1..(MaxTimeout + 1) :
         configs = [c \in CfgIds |->
                      IF c = "cfgA" THEN NewMulticallConfig(Client, MulticallAddress, bs, t)
                      ELSE NewDefaultMulticallConfig(Client, MulticallAddress)]
    /\ cfgp = [p \in Procs |-> "cfgA"]
    /\ \E cs \in SeqsUpTo(NameCalls, MaxCalls) :
         calls = [p \in Procs |-> IF p = "g1" THEN cs ELSE <<>>]
    /\ pc = [p \in Procs |-> IF p = "g1" THEN "idle" ELSE "off"]

SpecDeadline == InitDeadline /\ [][Next]_vars

\* The time the first n remote calls of p took, waiting before them included.
RECURSIVE TimeSpent(_, _)
TimeSpent(p, n) == IF n = 0 THEN 0 ELSE TimeSpent(p, n - 1) + rpcLog[p][n].took

\* C16: the deadline is set once per call and is the same instant for every
\* chunk: the remote call of chunk k fails with the deadline's error exactly
\* when it took at least the configured timeout minus the time already spent
\* on the chunks before it.
C16_OneDeadlinePerCall ==
    \A p \in Procs : \A n \in 1..Len(rpcLog[p]) :
        rpcLog[p][n].reply # "pending" =>
            (rpcLog[p][n].reply = "deadline"
                <=> rpcLog[p][n].took >= cfg(p).Timeout - TimeSpent(p, n - 1))

\* Timeout 2: the first chunk takes one unit and is answered, the second
\* takes one unit, less than the timeout, and runs into the deadline.
C16_Witness ==
    /\ Aborted("g1")
    /\ cfg("g1").Timeout = 2
    /\ Len(rpcLog["g1"]) = 2
    /\ rpcLog["g1"][1].took = 1 /\ rpcLog["g1"][1].reply = "ok"
    /\ rpcLog["g1"][2].took = 1 /\ rpcLog["g1"][2].reply = "deadline"
    /\ ret["g1"].err = Errorf("execute", rpcLog["g1"][2].start, "deadline")

\* --------------------------------------------------------- a failed Pack
\* The remote calls p made were all for chunks before index idx, and each
\* was answered with a response.
OnlyEarlierChunksSent(p, idx) ==
    \A n \in 1..Len(rpcLog[p]) :
        /\ rpcLog[p][n].start + rpcLog[p][n].size <= idx
        /\ rpcLog[p][n].reply \in {"ok", "short", "long"}

\* C17: when Pack fails for a chunk, MulticallRaw returns the pack error for
\* that chunk's start index and no result list, in that very step and without
\* a remote call; the remote calls made are those of the earlier chunks, then
\* and ever after.
C17_PackFailureSendsNothing ==
    /\ [][\A p \in Procs :
            (pc[p] = "pack" /\ pc'[p] # "pack" /\ pc'[p] # "call") =>
                /\ pc'[p] = "done"
                /\ ret'[p] = [results |-> Nil, err |-> Errorf("pack", i[p], "abi")]
                /\ rpcLog'[p] = rpcLog[p]]_vars
    /\ [](\A p \in Procs :
            ret[p].err.op = "pack" =>
                /\ Aborted(p)
                /\ OnlyEarlierChunksSent(p, ret[p].err.index))

\* Three requests in chunks of two: the first chunk is answered, Pack fails
\* for the second, and one remote call is all there was.
C17_Witness ==
    /\ Aborted("g1")
    /\ ret["g1"].err.op = "pack"
    /\ ret["g1"].err.index = 2
    /\ cfg("g1").BatchSize = 2
    /\ Len(calls["g1"]) = 3
    /\ Len(rpcLog["g1"]) = 1
    /\ rpcLog["g1"][1].reply = "ok"

\* ------------------------------------------------ what the error carries
\* The newest remote call of p, and whether all before it were answered
\* with a response.
LastCall(p) == rpcLog[p][Len(rpcLog[p])]

EarlierCallsAnswered(p) ==
    \A n \in 1..(Len(rpcLog[p]) - 1) : rpcLog[p][n].reply \in {"ok", "short", "long"}

\* C18: the error returned for a failed remote call wraps the error
\* CallContract gave, unchanged, with the start index of the chunk that
\* failed, the first to fail; the error returned for a failed Unpack carries
\* the start index of the chunk whose response could not be decoded.
C18_ErrorNamesCauseAndChunk ==
    \A p \in Procs :
        /\ ret[p].err.op = "execute" =>
             /\ Len(rpcLog[p]) >= 1
             /\ ret[p].err.cause = result[p].err
             /\ ret[p].err.cause = LastCall(p).reply
             /\ ret[p].err.cause \in {"revert", "neterr", "deadline"}
             /\ ret[p].err.index = LastCall(p).start
             /\ EarlierCallsAnswered(p)
        /\ ret[p].err.op = "unpack" =>
             /\ Len(rpcLog[p]) >= 1
             /\ LastCall(p).reply = "truncated"
             /\ ~Unpack(result[p].data).ok
             /\ ret[p].err.index = LastCall(p).start
             /\ EarlierCallsAnswered(p)

\* Three requests in chunks of two: the second remote call fails in the
\* network and the error names that failure and index 2.
C18_Witness ==
    /\ Aborted("g1")
    /\ ret["g1"].err = Errorf("execute", 2, "neterr")
    /\ cfg("g1").BatchSize = 2
    /\ Len(rpcLog["g1"]) = 2
    /\ rpcLog["g1"][1].reply = "ok"
    /\ rpcLog["g1"][2].reply = "neterr"

\* ------------------------------------------------------------ termination
\* The goroutine of a call keeps being scheduled and every remote call
\* returns: no step of a call stays possible for ever without being taken.
Fairness ==
    \A p \in Procs :
        WF_vars(Call(p) \/ LoopTest(p) \/ PackBatch(p) \/ SendCall(p)
                \/ ReturnCall(p) \/ UnpackResult(p) \/ Store(p))

\* One goroutine calls MulticallRaw with a positive batch size and requests
\* that succeed on chain, in an environment that may show every fault.
InitFair ==
    /\ InitLocals
    /\ env = AllFaults
    /\ \E bs \in 1..MaxBatch :
         configs = [c \in CfgIds |->
                      IF c = "cfgA"
                      THEN NewMulticallConfig(Client, MulticallAddress, bs, MaxTimeout)
                      ELSE NewDefaultMulticallConfig(Client, MulticallAddress)]
    /\ cfgp = [p \in Procs |-> "cfgA"]
    /\ \E cs \in SeqsUpTo(NameCalls, MaxCalls) :
         calls = [p \in Procs |-> IF p = "g1" THEN cs ELSE <<>>]
    /\ pc = [p \in Procs |-> IF p = "g1" THEN "idle" ELSE "off"]

SpecFair == InitFair /\ [][Next]_vars /\ Fairness

\* C19: with BatchSize >= 1 a call returns once every remote call has
\* returned, after at most ceil(N / BatchSize) remote calls, and the start
\* index grows with every pass of the loop.
C19_Terminates ==
    /\ (\E p \in Procs : pc[p] = "idle" /\ cfg(p).BatchSize >= 1)
           ~> (\A p \in Procs : pc[p] # "off" => Returned(p))
    /\ [](\A p \in Procs :
            (Running(p) /\ cfg(p).BatchSize >= 1) =>
                Len(rpcLog[p]) <= CeilDiv(Len(calls[p]), cfg(p).BatchSize))
    /\ [][\A p \in Procs :
            (cfg(p).BatchSize >= 1 /\ pc[p] = "store" /\ pc'[p] = "loop") =>
                i'[p] > i[p]]_vars

\* ---------------------------------------------------------- the inputs
\* C20: no step of MulticallRaw, on the success path or on an error path,
\* changes a field of a MulticallConfig or an element of a request list, or
\* which config a call holds.
C20_InputsUnchanged ==
    [][/\ \A c \in CfgIds :
            /\ configs'[c].Client = configs[c].Client
            /\ configs'[c].MulticallAddress = configs[c].MulticallAddress
            /\ configs'[c].BatchSize = configs[c].BatchSize
            /\ configs'[c].Timeout = configs[c].Timeout
       /\ \A p \in Procs :
            /\ cfgp'[p] = cfgp[p]
            /\ Len(calls'[p]) = Len(calls[p])
            /\ \A k \in 1..Len(calls[p]) : calls'[p][k] = calls[p][k]]_vars

\* An error path: the first of two chunks was stored, the second reply could
\* not be unpacked; the config and the request list are as the caller built them.
C20_Witness ==
    /\ Aborted("g1")
    /\ ret["g1"].err.op = "unpack"
    /\ ret["g1"].err.index = 1
    /\ configs["cfgA"] = NewMulticallConfig(Client, MulticallAddress, 1, MaxTimeout)
    /\ calls["g1"] = <<NewCallRequest("WETH", "name", TRUE), NewCallRequest("USDT", "name", FALSE)>>
    /\ results["g1"][1] = Exec(calls["g1"][1])

====
